---- MODULE Spec2Model ----
(***************************************************************************)
(* Model of hr_mvp: the employee roster (src/hr_mvp/roster.py) and the     *)
(* month display helper of the command line (src/hr_mvp/cli.py).           *)
(*                                                                         *)
(* Representation of the Python values:                                    *)
(*   str            a sequence of Unicode code points (<<>> is "")         *)
(*   Optional[T]    <<>> for None, <<v>> for a present value v             *)
(*   date           its proleptic Gregorian ordinal (date.toordinal()),    *)
(*                  date.min is 1 and date.max is 3652059                  *)
(*   float average  the exact quotient [num, den] of the int division      *)
(*   list of records returned by a query: the list of the positions in     *)
(*                  _employees of the objects it references                *)
(*   a call         [raised |-> "" , value |-> v] when it returns v and    *)
(*                  [raised |-> E, value |-> <<>>] when it raises E        *)
(* Fields of EmployeeRecord that no modelled operation reads (payroll_id,  *)
(* gender, phone, ...) are left out of the record.                         *)
(***************************************************************************)
EXTENDS Integers, Sequences, FiniteSets, TLC

VARIABLES
    rows,       \* the raw rows csv.DictReader yields, before construction
    employees,  \* EmployeeRoster._employees
    op,         \* the last operation called ("init" before any call)
    args,       \* its arguments
    result      \* what it returned or raised

vars == <<rows, employees, op, args, result>>

-----------------------------------------------------------------------------
(* Bounds of the model *)

MaxRoster == 3      \* longest roster
MaxDate == 2        \* latest ordinal drawn for a date
MaxDays == 1        \* largest |within_days|
MaxKeyLen == 2      \* longest search keyword
MaxMonths == 2      \* largest tenure of a roster record
MaxDisplayMonths == 26  \* largest month count displayed
MaxCount == 4       \* largest number of averaged tenures displayed

\* the code points of the search keywords: space, "A", "a"
KeyAlphabet == {32, 65, 97}

(* Program constants *)

DateMinOrdinal == 1          \* date.min.toordinal()
DateMaxOrdinal == 3652059    \* date.max.toordinal()
TimedeltaMaxDays == 999999999  \* timedelta.max.days

-----------------------------------------------------------------------------
(* Python builtins on the values above *)

None == <<>>
Some(v) == <<v>>
IsNone(x) == x = <<>>
Val(x) == x[1]

Returned(v) == [raised |-> "", value |-> v]
Raised(e) == [raised |-> e, value |-> <<>>]

SeqsUpTo(S, n) == UNION {[1..k -> S] : k \in 0..n}

\* str.isspace() of one code point
IsSpace(c) ==
    c \in (9..13) \cup (28..32) \cup {133, 160, 5760} \cup (8192..8202)
          \cup {8232, 8233, 8239, 8287, 12288}

RECURSIVE LStrip(_)
LStrip(s) ==
    IF s # <<>> /\ IsSpace(Head(s)) THEN LStrip(Tail(s)) ELSE s

RECURSIVE RStrip(_)
RStrip(s) ==
    IF s # <<>> /\ IsSpace(s[Len(s)]) THEN RStrip(SubSeq(s, 1, Len(s) - 1)) ELSE s

\* str.strip()
Strip(s) == RStrip(LStrip(s))

\* str.lower(), on ASCII letters and on caseless code points (Hangul)
Lower(s) == [i \in 1..Len(s) |-> IF s[i] \in 65..90 THEN s[i] + 32 ELSE s[i]]

\* needle in hay
Contains(needle, hay) ==
    \E i \in 0..(Len(hay) - Len(needle)) : SubSeq(hay, i + 1, i + Len(needle)) = needle

\* a < b on str: by code point, a proper prefix first
RECURSIVE StrLess(_, _)
StrLess(a, b) ==
    IF b = <<>> THEN FALSE
    ELSE IF a = <<>> THEN TRUE
    ELSE IF Head(a) # Head(b) THEN Head(a) < Head(b)
    ELSE StrLess(Tail(a), Tail(b))

\* str(n) of an int
RECURSIVE NatStr(_)
NatStr(n) == IF n < 10 THEN <<48 + n>> ELSE NatStr(n \div 10) \o <<48 + (n % 10)>>

IntStr(n) == IF n < 0 THEN <<45>> \o NatStr(0 - n) ELSE NatStr(n)

-----------------------------------------------------------------------------
(* String literals of the source *)

StrDash == <<45>>                                  \* "-"
StrYear == <<45380>>                               \* U+B144, the years suffix
StrMonths == <<44060, 50900>>                      \* U+AC1C U+C6D4, the months suffix
StrApprox == <<50557>>                             \* U+C57D, "approximately"
ActiveMarker == <<51116, 51649>>                   \* U+C7AC U+C9C1, "currently employed"
Unspecified == <<40, 48120, 51648, 51221, 41>>     \* "(" U+BBF8 U+C9C0 U+C815 ")"

-----------------------------------------------------------------------------
(* datetime.strptime(value, "%Y-%m-%d").date() and int(value) *)

IsDigit(c) == c \in 48..57

RECURSIVE DigitsValue(_)
DigitsValue(s) ==
    IF s = <<>> THEN 0 ELSE 10 * DigitsValue(SubSeq(s, 1, Len(s) - 1)) + (s[Len(s)] - 48)

AllDigits(s) == s # <<>> /\ \A k \in 1..Len(s) : IsDigit(s[k])

\* the directive %m: 1[0-2]|0[1-9]|[1-9]
MatchesMonth(s) ==
    \/ Len(s) = 2 /\ s[1] = 49 /\ s[2] \in 48..50
    \/ Len(s) = 2 /\ s[1] = 48 /\ s[2] \in 49..57
    \/ Len(s) = 1 /\ s[1] \in 49..57

\* the directive %d: 3[01]|[12]\d|0[1-9]|[1-9]| [1-9]
MatchesDay(s) ==
    \/ Len(s) = 2 /\ s[1] = 51 /\ s[2] \in 48..49
    \/ Len(s) = 2 /\ s[1] \in 49..50 /\ IsDigit(s[2])
    \/ Len(s) = 2 /\ s[1] = 48 /\ s[2] \in 49..57
    \/ Len(s) = 1 /\ s[1] \in 49..57
    \/ Len(s) = 2 /\ s[1] = 32 /\ s[2] \in 49..57

IsLeap(y) == y % 4 = 0 /\ (y % 100 # 0 \/ y % 400 = 0)

DaysInMonth(y, m) ==
    IF m = 2 THEN (IF IsLeap(y) THEN 29 ELSE 28)
    ELSE IF m \in {4, 6, 9, 11} THEN 30 ELSE 31

RECURSIVE DaysBeforeMonth(_, _)
DaysBeforeMonth(y, m) ==
    IF m = 1 THEN 0 ELSE DaysBeforeMonth(y, m - 1) + DaysInMonth(y, m - 1)

DaysBeforeYear(y) ==
    (y - 1) * 365 + ((y - 1) \div 4) - ((y - 1) \div 100) + ((y - 1) \div 400)

\* date(y, m, d).toordinal()
ToOrdinal(y, m, d) == DaysBeforeYear(y) + DaysBeforeMonth(y, m) + d

\* the value read as %Y-%m-%d: four digits, "-", a month, "-", a day and nothing
\* more, naming a day of the calendar; ValueError otherwise
strptime_date(s) ==
    LET dash == {k \in {7, 8} : k < Len(s) /\ s[k] = 45}
        k2 == CHOOSE k \in dash : \A l \in dash : k <= l
        mm == SubSeq(s, 6, k2 - 1)
        dd == SubSeq(s, k2 + 1, Len(s))
        day == IF dd[1] = 32 THEN DigitsValue(Tail(dd)) ELSE DigitsValue(dd)
        year == DigitsValue(SubSeq(s, 1, 4))
        month == DigitsValue(mm)
    IN  IF Len(s) < 8 \/ ~AllDigits(SubSeq(s, 1, 4)) \/ s[5] # 45 \/ dash = {}
        THEN Raised("ValueError")
        ELSE IF ~MatchesMonth(mm) \/ ~MatchesDay(dd) THEN Raised("ValueError")
        ELSE IF year < 1 \/ day > DaysInMonth(year, month) THEN Raised("ValueError")
        ELSE Returned(Some(ToOrdinal(year, month, day)))

\* _parse_date that takes an unparsable value for an absent one
parse_date_Lenient(value) ==
    LET stripped == Strip(value)
    IN  IF stripped = <<>> THEN Returned(None)
        ELSE IF strptime_date(stripped).raised # "" THEN Returned(None)
        ELSE strptime_date(stripped)

parse_date(value) ==
    LET stripped == Strip(value)
    IN  IF stripped = <<>> THEN Returned(None) ELSE strptime_date(stripped)

\* int(value) of a stripped value: an optional sign and decimal digits
parse_int(value) ==
    LET stripped == Strip(value)
        signed == stripped # <<>> /\ stripped[1] \in {43, 45}
        digits == IF signed THEN Tail(stripped) ELSE stripped
    IN  IF stripped = <<>> THEN Returned(None)
        ELSE IF ~AllDigits(digits) THEN Raised("ValueError")
        ELSE IF signed /\ stripped[1] = 45 THEN Returned(Some(0 - DigitsValue(digits)))
        ELSE Returned(Some(DigitsValue(digits)))

-----------------------------------------------------------------------------
(* Formatting *)

\* _format_months of roster.py, months an Optional[int]
format_months(months) ==
    LET years == Val(months) \div 12
        remaining_months == Val(months) % 12
    IN  IF IsNone(months) THEN StrDash
        ELSE IF years # 0 /\ remaining_months # 0
             THEN IntStr(years) \o StrYear \o <<32>> \o IntStr(remaining_months) \o StrMonths
        ELSE IF years # 0 THEN IntStr(years) \o StrYear
        ELSE IntStr(remaining_months) \o StrMonths

\* round(num / den): the nearest integer, the even one of two equally near
Round(num, den) ==
    LET low == num \div den
        twice == 2 * (num % den)
    IN  IF twice < den THEN low
        ELSE IF twice > den THEN low + 1
        ELSE IF low % 2 = 0 THEN low ELSE low + 1

\* f"{num / den:.1f}": the sign, then the magnitude rounded to tenths. The quotients
\* of this model that lie halfway between two tenths (quarters, eighths) are exact
\* floats, which the conversion rounds to the even tenth.
FormatOneDecimal(num, den) ==
    LET magnitude == IF num < 0 THEN 0 - num ELSE num
        tenths == Round(10 * magnitude, den)
    IN  (IF num < 0 THEN <<45>> ELSE <<>>)
        \o NatStr(tenths \div 10) \o <<46>> \o NatStr(tenths % 10)

\* " ".join(parts)
RECURSIVE Join(_)
Join(parts) ==
    IF parts = <<>> THEN <<>>
    ELSE IF Len(parts) = 1 THEN parts[1]
    ELSE parts[1] \o <<32>> \o Join(Tail(parts))

\* the parts of _describe_months for a month count rounded to the integer `rounded`
DescribeParts(rounded, num, den) ==
    LET years == rounded \div 12
        remaining_months == rounded % 12
        named == (IF years # 0 THEN <<IntStr(years) \o StrYear>> ELSE <<>>)
                 \o (IF remaining_months # 0
                     THEN <<IntStr(remaining_months) \o StrMonths>> ELSE <<>>)
        parts == IF named = <<>> THEN <<<<48>> \o StrMonths>> ELSE named
    IN  IF rounded * den # num
        THEN Append(parts, <<40>> \o StrApprox \o <<32>> \o FormatOneDecimal(num, den)
                           \o StrMonths \o <<41>>)
        ELSE parts

\* _describe_months with the month count floored
describe_months_Floor(months) ==
    IF IsNone(months) THEN StrDash
    ELSE Join(DescribeParts(Val(months).num \div Val(months).den,
                            Val(months).num, Val(months).den))

\* _describe_months of cli.py, months None or the quotient num / den
describe_months(months) ==
    IF IsNone(months) THEN StrDash
    ELSE Join(DescribeParts(Round(Val(months).num, Val(months).den),
                            Val(months).num, Val(months).den))

-----------------------------------------------------------------------------
(* EmployeeRecord *)

BlankRecord ==
    [name |-> <<>>, team |-> <<>>, part |-> <<>>, title |-> <<>>,
     birthdate |-> None, start_date |-> None,
     probation_end |-> None, resignation_date |-> None,
     tenure_text |-> <<>>, employment_status |-> <<>>,
     current_experience_months |-> None]

DateFields == {"birthdate", "start_date", "probation_end", "resignation_date"}

\* EmployeeRecord.from_row: the first conversion that raises ends the construction
from_row(row) ==
    LET parsed == [f \in DateFields |-> parse_date(row[f])]
        months == parse_int(row.current_experience_months)
    IN  IF \E f \in DateFields : parsed[f].raised # "" THEN Raised("ValueError")
        ELSE IF months.raised # "" THEN Raised("ValueError")
        ELSE Returned(
            [name |-> Strip(row.name), team |-> Strip(row.team),
             part |-> Strip(row.part), title |-> Strip(row.title),
             birthdate |-> parsed["birthdate"].value,
             start_date |-> parsed["start_date"].value,
             probation_end |-> parsed["probation_end"].value,
             resignation_date |-> parsed["resignation_date"].value,
             tenure_text |-> Strip(row.tenure_text),
             employment_status |-> Strip(row.employment_status),
             current_experience_months |-> months.value])

\* is_active with the resignation date left unread
is_active_StatusOnly(emp) == Contains(ActiveMarker, emp.employment_status)

is_active(emp) ==
    IF ~IsNone(emp.resignation_date) THEN FALSE
    ELSE Contains(ActiveMarker, emp.employment_status)

tenure_months(emp) == emp.current_experience_months

\* tenure_display that tests the tenure for truth, not for presence
tenure_display_Truthy(emp) ==
    IF ~IsNone(tenure_months(emp)) /\ Val(tenure_months(emp)) # 0
    THEN format_months(tenure_months(emp))
    ELSE IF emp.tenure_text # <<>> THEN emp.tenure_text ELSE StrDash

tenure_display(emp) ==
    IF ~IsNone(tenure_months(emp)) THEN format_months(tenure_months(emp))
    ELSE IF emp.tenure_text # <<>> THEN emp.tenure_text ELSE StrDash

\* matches with the part field left out
matches_NoPart(emp, keyword) ==
    LET keyword_lower == Lower(keyword)
    IN  \/ Contains(keyword_lower, Lower(emp.name))
        \/ Contains(keyword_lower, Lower(emp.team))
        \/ Contains(keyword_lower, Lower(emp.title))

matches(emp, keyword) ==
    LET keyword_lower == Lower(keyword)
    IN  \/ Contains(keyword_lower, Lower(emp.name))
        \/ Contains(keyword_lower, Lower(emp.team))
        \/ Contains(keyword_lower, Lower(emp.part))
        \/ Contains(keyword_lower, Lower(emp.title))

-----------------------------------------------------------------------------
(* EmployeeRoster *)

\* EmployeeRoster.from_csv: [EmployeeRecord.from_row(row) for row in reader]
from_csv(raw) ==
    LET built == [k \in 1..Len(raw) |-> from_row(raw[k])]
    IN  IF \E k \in 1..Len(raw) : built[k].raised # "" THEN Raised("ValueError")
        ELSE Returned([k \in 1..Len(raw) |-> built[k].value])

\* the positions 1..n of a list, in order
Indices(n) == [i \in 1..n |-> i]

\* [employee for employee in self._employees if employee.is_active]
active ==
    LET Keep(i) == is_active(employees[i])
    IN  SelectSeq(Indices(Len(employees)), Keep)

\* the key of results.sort: emp.probation_end or date.max
ProbationKey(i) ==
    IF IsNone(employees[i].probation_end) THEN DateMaxOrdinal
    ELSE Val(employees[i].probation_end)

\* an insertion that puts an element before the elements of equal key
InsertByProbation_BeforeEqual(sorted, i) ==
    LET before == {k \in 1..Len(sorted) : ProbationKey(sorted[k]) < ProbationKey(i)}
        n == Cardinality(before)
    IN  SubSeq(sorted, 1, n) \o <<i>> \o SubSeq(sorted, n + 1, Len(sorted))

\* list.sort is stable: an element goes after every element whose key is not greater
InsertByProbation(sorted, i) ==
    LET after == {k \in 1..Len(sorted) : ProbationKey(sorted[k]) <= ProbationKey(i)}
        n == Cardinality(after)
    IN  SubSeq(sorted, 1, n) \o <<i>> \o SubSeq(sorted, n + 1, Len(sorted))

RECURSIVE SortByProbation(_)
SortByProbation(s) ==
    IF s = <<>> THEN <<>>
    ELSE InsertByProbation(SortByProbation(SubSeq(s, 1, Len(s) - 1)), s[Len(s)])

\* reference_date + timedelta(days=within_days); <<>> when it raises OverflowError
WindowEnd(reference_date, within_days) ==
    IF within_days < 0 - TimedeltaMaxDays \/ within_days > TimedeltaMaxDays THEN None
    ELSE IF reference_date + within_days < DateMinOrdinal
            \/ reference_date + within_days > DateMaxOrdinal THEN None
    ELSE Some(reference_date + within_days)

upcoming_probation_end(within_days, reference_date) ==
    LET window_end == WindowEnd(reference_date, within_days)
        InWindow(i) ==
            /\ ~IsNone(employees[i].probation_end)
            /\ reference_date <= Val(employees[i].probation_end)
            /\ Val(employees[i].probation_end) <= Val(window_end)
        results == SelectSeq(active, InWindow)
    IN  IF IsNone(window_end) THEN Raised("OverflowError")
        ELSE Returned(SortByProbation(results))

\* counts[key] = counts.get(key, 0) + 1, counts a list of <<key, count>> in
\* insertion order
CountKey(counts, key) ==
    IF \E k \in 1..Len(counts) : counts[k][1] = key
    THEN [k \in 1..Len(counts) |->
             IF counts[k][1] = key THEN <<key, counts[k][2] + 1>> ELSE counts[k]]
    ELSE Append(counts, <<key, 1>>)

\* sorted(counts.items(), key=lambda item: item[0]), one item inserted
InsertByKey(sorted, item) ==
    LET after == {k \in 1..Len(sorted) : ~StrLess(item[1], sorted[k][1])}
        n == Cardinality(after)
    IN  SubSeq(sorted, 1, n) \o <<item>> \o SubSeq(sorted, n + 1, Len(sorted))

RECURSIVE SortByKey(_)
SortByKey(items) ==
    IF items = <<>> THEN <<>>
    ELSE InsertByKey(SortByKey(SubSeq(items, 1, Len(items) - 1)), items[Len(items)])

\* employee.team or "(unspecified)"
TeamKey(emp) == IF emp.team = <<>> THEN Unspecified ELSE emp.team

\* the loop of summary_by_team over the first n active employees
RECURSIVE TeamCounts(_, _)
TeamCounts(act, n) ==
    IF n = 0 THEN <<>>
    ELSE CountKey(TeamCounts(act, n - 1), TeamKey(employees[act[n]]))

\* summary_by_team with the counts left in insertion order
summary_by_team_Unsorted == TeamCounts(active, Len(active))

\* the dict returned, as the list of its items in iteration order
summary_by_team == SortByKey(TeamCounts(active, Len(active)))

RECURSIVE SumSeq(_)
SumSeq(s) == IF s = <<>> THEN 0 ELSE Head(s) + SumSeq(Tail(s))

\* average_tenure_months with active_only left unread
average_tenure_months_AllRecords(active_only) ==
    LET population == Indices(Len(employees))
        HasTenure(i) == ~IsNone(tenure_months(employees[i]))
        with == SelectSeq(population, HasTenure)
        tenures == [k \in 1..Len(with) |-> Val(tenure_months(employees[with[k]]))]
    IN  IF tenures = <<>> THEN None
        ELSE Some([num |-> SumSeq(tenures), den |-> Len(tenures)])

average_tenure_months(active_only) ==
    LET population == IF active_only THEN active ELSE Indices(Len(employees))
        HasTenure(i) == ~IsNone(tenure_months(employees[i]))
        with == SelectSeq(population, HasTenure)
        tenures == [k \in 1..Len(with) |-> Val(tenure_months(employees[with[k]]))]
    IN  IF tenures = <<>> THEN None
        ELSE Some([num |-> SumSeq(tenures), den |-> Len(tenures)])

\* search without the guard on an empty keyword
search_NoGuard(keyword) ==
    LET stripped == Strip(keyword)
        Keep(i) == matches(employees[i], stripped)
    IN  SelectSeq(Indices(Len(employees)), Keep)

search(keyword) ==
    LET stripped == Strip(keyword)
        Keep(i) == matches(employees[i], stripped)
    IN  IF stripped = <<>> THEN <<>>
        ELSE SelectSeq(Indices(Len(employees)), Keep)

-----------------------------------------------------------------------------
(* Operations *)

UpcomingProbationEnd ==
    \E within_days \in (0 - MaxDays)..MaxDays, reference_date \in DateMinOrdinal..MaxDate :
        /\ op' = "upcoming_probation_end"
        /\ args' = [within_days |-> within_days, reference_date |-> reference_date]
        /\ result' = upcoming_probation_end(within_days, reference_date)
        /\ UNCHANGED <<rows, employees>>

\* the roster is bound only when the load returns
FromCsv ==
    LET loaded == from_csv(rows)
    IN  /\ op' = "from_csv"
        /\ args' = <<>>
        /\ result' = [raised |-> loaded.raised, value |-> <<>>]
        /\ employees' = IF loaded.raised = "" THEN loaded.value ELSE employees
        /\ UNCHANGED rows

TenureDisplay ==
    \E i \in 1..Len(employees) :
        /\ op' = "tenure_display"
        /\ args' = [index |-> i]
        /\ result' = Returned(tenure_display(employees[i]))
        /\ UNCHANGED <<rows, employees>>

\* the month counts displayed: None, or the quotient of a sum by a count
MonthCounts ==
    {None} \cup {Some([num |-> n, den |-> d]) :
                    n \in (0 - MaxCount)..(MaxDisplayMonths * MaxCount), d \in 1..MaxCount}

DescribeMonths ==
    \E months \in MonthCounts :
        /\ op' = "describe_months"
        /\ args' = [months |-> months]
        /\ result' = Returned(describe_months(months))
        /\ UNCHANGED <<rows, employees>>

Active ==
    /\ op' = "active"
    /\ args' = <<>>
    /\ result' = Returned(active)
    /\ UNCHANGED <<rows, employees>>

SummaryByTeam ==
    /\ op' = "summary_by_team"
    /\ args' = <<>>
    /\ result' = Returned(summary_by_team)
    /\ UNCHANGED <<rows, employees>>

AverageTenureMonths ==
    \E active_only \in BOOLEAN :
        /\ op' = "average_tenure_months"
        /\ args' = [active_only |-> active_only]
        /\ result' = Returned(average_tenure_months(active_only))
        /\ UNCHANGED <<rows, employees>>

Search ==
    \E keyword \in SeqsUpTo(KeyAlphabet, MaxKeyLen) :
        /\ op' = "search"
        /\ args' = [keyword |-> keyword]
        /\ result' = Returned(search(keyword))
        /\ UNCHANGED <<rows, employees>>

-----------------------------------------------------------------------------
(* Rosters of the probation queries *)

StatusActive == ActiveMarker
StatusLeft == <<53748, 51649>>      \* U+D1F4 U+C9C1, "resigned"

\* (resignation_date, employment_status): employed, status says resigned,
\* resignation date recorded
ProbationStanding ==
    {<<None, StatusActive>>, <<None, StatusLeft>>, <<Some(MaxDate), StatusActive>>}

ProbationRecords ==
    {[BlankRecord EXCEPT !.probation_end = p, !.resignation_date = rs[1],
                         !.employment_status = rs[2]] :
        p \in {None} \cup {Some(d) : d \in DateMinOrdinal..MaxDate},
        rs \in ProbationStanding}

InitProbation ==
    /\ rows = <<>>
    /\ employees \in SeqsUpTo(ProbationRecords, MaxRoster)
    /\ op = "init"
    /\ args = <<>>
    /\ result = <<>>

NextProbation == UpcomingProbationEnd

SpecProbation == InitProbation /\ [][NextProbation]_vars

-----------------------------------------------------------------------------
(* Rosters of the searches: one record per field that can match, one that
   matches nothing *)

SearchRecords ==
    {[BlankRecord EXCEPT !.name = <<97, 65>>],                        \* name "aA"
     [BlankRecord EXCEPT !.name = <<98>>, !.team = <<97, 32, 97>>],   \* team "a a"
     [BlankRecord EXCEPT !.name = <<98>>, !.part = <<98, 65>>],       \* part "bA"
     [BlankRecord EXCEPT !.name = <<98>>, !.title = <<65, 98>>],      \* title "Ab"
     [BlankRecord EXCEPT !.name = <<98>>]}                            \* name "b"

InitSearch ==
    /\ rows = <<>>
    /\ employees \in SeqsUpTo(SearchRecords, MaxRoster)
    /\ op = "init"
    /\ args = <<>>
    /\ result = <<>>

NextSearch == Search

SpecSearch == InitSearch /\ [][NextSearch]_vars

-----------------------------------------------------------------------------
(* Rosters of the headcount summaries *)

StatusOnLeave == <<55092, 51649>>             \* U+D734 U+C9C1, "on leave"
StatusActiveNow == <<54788, 51116, 51649>>    \* U+D604 U+C7AC U+C9C1, marker inside

SummaryRecords ==
    {[BlankRecord EXCEPT !.team = t, !.resignation_date = r, !.employment_status = s] :
        t \in {<<>>, <<71>>, <<33>>},          \* "", "G", "!"
        r \in {None, Some(MaxDate)},
        s \in {StatusActiveNow, StatusOnLeave, <<>>}}

InitSummary ==
    /\ rows = <<>>
    /\ employees \in SeqsUpTo(SummaryRecords, MaxRoster)
    /\ op = "init"
    /\ args = <<>>
    /\ result = <<>>

NextSummary == Active \/ SummaryByTeam

SpecSummary == InitSummary /\ [][NextSummary]_vars

-----------------------------------------------------------------------------
(* Rosters of the tenure average *)

TenureRecords ==
    {[BlankRecord EXCEPT !.resignation_date = rs[1], !.employment_status = rs[2],
                         !.current_experience_months = m] :
        rs \in ProbationStanding,
        m \in {None} \cup {Some(n) : n \in 0..MaxMonths}}

InitTenure ==
    /\ rows = <<>>
    /\ employees \in SeqsUpTo(TenureRecords, MaxRoster)
    /\ op = "init"
    /\ args = <<>>
    /\ result = <<>>

NextTenure == AverageTenureMonths

SpecTenure == InitTenure /\ [][NextTenure]_vars

-----------------------------------------------------------------------------
(* Files loaded *)

DateBlank == {<<>>, <<32>>}                                     \* "", " "
Date_0001_01_02 == <<48, 48, 48, 49, 45, 48, 49, 45, 48, 50>>   \* "0001-01-02"
Date_2016_09_01 == <<32, 50, 48, 49, 54, 45, 48, 57, 45, 48, 49, 32>>  \* " 2016-09-01 "
Date_2016_9_1 == <<50, 48, 49, 54, 45, 57, 45, 49>>             \* "2016-9-1"
Date_Slashes == <<50, 48, 49, 54, 47, 48, 57, 47, 48, 49>>      \* "2016/09/01"
Date_Feb30 == <<50, 48, 49, 54, 45, 48, 50, 45, 51, 48>>        \* "2016-02-30"
Date_Word == <<120>>                                            \* "x"

BlankRow ==
    [name |-> <<32, 98>>, team |-> <<>>, part |-> <<>>, title |-> <<>>,
     birthdate |-> <<>>, start_date |-> <<>>, probation_end |-> <<>>,
     resignation_date |-> <<>>, tenure_text |-> <<>>,
     employment_status |-> ActiveMarker, current_experience_months |-> <<>>]

RawRows ==
    {BlankRow,
     [BlankRow EXCEPT !.probation_end = <<32>>],
     [BlankRow EXCEPT !.start_date = Date_0001_01_02, !.probation_end = Date_2016_09_01,
                      !.current_experience_months = <<49, 52>>],      \* "14"
     [BlankRow EXCEPT !.probation_end = Date_2016_9_1],
     [BlankRow EXCEPT !.probation_end = Date_Slashes],
     [BlankRow EXCEPT !.resignation_date = Date_Feb30],
     [BlankRow EXCEPT !.birthdate = Date_Word],
     [BlankRow EXCEPT !.current_experience_months = <<120>>]}         \* "x"

InitLoad ==
    /\ rows \in SeqsUpTo(RawRows, MaxRoster)
    /\ employees = <<>>
    /\ op = "init"
    /\ args = <<>>
    /\ result = <<>>

NextLoad == FromCsv

SpecLoad == InitLoad /\ [][NextLoad]_vars

-----------------------------------------------------------------------------
(* Records and month counts displayed *)

DisplayRecords ==
    {[BlankRecord EXCEPT !.current_experience_months = m, !.tenure_text = t] :
        m \in {None} \cup {Some(n) : n \in (0 - 2)..MaxDisplayMonths},
        t \in {<<>>, <<50, 121>>, <<45>>}}                            \* "", "2y", "-"

InitTenureDisplay ==
    /\ rows = <<>>
    /\ employees \in [1..1 -> DisplayRecords]
    /\ op = "init"
    /\ args = <<>>
    /\ result = <<>>

NextTenureDisplay == TenureDisplay

SpecTenureDisplay == InitTenureDisplay /\ [][NextTenureDisplay]_vars

InitDescribe ==
    /\ rows = <<>>
    /\ employees = <<>>
    /\ op = "init"
    /\ args = <<>>
    /\ result = <<>>

NextDescribe == DescribeMonths

SpecDescribe == InitDescribe /\ [][NextDescribe]_vars

-----------------------------------------------------------------------------
(* What the specification says of a record, stated on the fields alone *)

\* resignation_date absent and the marker U+C7AC U+C9C1 somewhere in employment_status
SaidActive(emp) ==
    /\ emp.resignation_date = <<>>
    /\ \E k \in 1..(Len(emp.employment_status) - 1) :
           /\ emp.employment_status[k] = 51116
           /\ emp.employment_status[k + 1] = 51649

\* the set of the elements of a list
Range(s) == {s[k] : k \in 1..Len(s)}

-----------------------------------------------------------------------------
(* Claims on upcoming_probation_end *)

InProbationWindow(i) ==
    /\ SaidActive(employees[i])
    /\ employees[i].probation_end # <<>>
    /\ args.reference_date <= employees[i].probation_end[1]
    /\ employees[i].probation_end[1] <= args.reference_date + args.within_days

\* C1: for every roster, reference_date and integer within_days, the call returns
\* (raising nothing) exactly the active records with a present probation_end in
\* [reference_date, reference_date + within_days], each once; none when within_days < 0.
C1_WindowExact ==
    op = "upcoming_probation_end" =>
        /\ result.raised = ""
        /\ Range(result.value) = {i \in 1..Len(employees) : InProbationWindow(i)}
        /\ Cardinality(Range(result.value)) = Len(result.value)
        /\ (args.within_days < 0 => result.value = <<>>)

\* The same, for the calls whose window end is a representable date.
C1_WindowExactInRange ==
    (op = "upcoming_probation_end" /\ result.raised = "") =>
        /\ Range(result.value) = {i \in 1..Len(employees) : InProbationWindow(i)}
        /\ Cardinality(Range(result.value)) = Len(result.value)
        /\ (args.within_days < 0 => result.value = <<>>)

C1_OverflowOnlyOutOfRange ==
    op = "upcoming_probation_end" =>
        (result.raised = "OverflowError" <=>
            args.reference_date + args.within_days \notin DateMinOrdinal..DateMaxOrdinal)

\* C2: the returned list is ascending by probation_end, and records with the same
\* probation_end keep the relative order they have in the roster.
C2_SortedStable ==
    (op = "upcoming_probation_end" /\ result.raised = "") =>
        \A k, l \in 1..Len(result.value) :
            k < l =>
                LET a == employees[result.value[k]].probation_end[1]
                    b == employees[result.value[l]].probation_end[1]
                IN  /\ a <= b
                    /\ (a = b => result.value[k] < result.value[l])

\* three records returned: a tie kept in roster order, behind a record the sort moved up
C2_Witness ==
    /\ op = "upcoming_probation_end"
    /\ result.raised = ""
    /\ Len(result.value) = 3
    /\ result.value[1] > result.value[2]
    /\ result.value[2] < result.value[3]
    /\ employees[result.value[2]].probation_end = employees[result.value[3]].probation_end

-----------------------------------------------------------------------------
(* Claims on search *)

\* a list of positions in roster order, none twice
Ascending(s) == \A k, l \in 1..Len(s) : k < l => s[k] < s[l]

Blank(keyword) == \A k \in 1..Len(keyword) : keyword[k] = 32

\* the keyword without the spaces around it
Trimmed(keyword) ==
    LET inked == {k \in 1..Len(keyword) : keyword[k] # 32}
    IN  IF inked = {} THEN <<>>
        ELSE SubSeq(keyword, CHOOSE k \in inked : \A l \in inked : k <= l,
                             CHOOSE k \in inked : \A l \in inked : k >= l)

Fold(c) == IF c \in 65..90 THEN c + 32 ELSE c

\* keyword occurs in field, letter case apart
OccursIn(keyword, field) ==
    \E off \in 0..(Len(field) - Len(keyword)) :
        \A j \in 1..Len(keyword) : Fold(field[off + j]) = Fold(keyword[j])

SaidMatches(emp, keyword) ==
    \E field \in {emp.name, emp.team, emp.part, emp.title} : OccursIn(keyword, field)

\* C3: search returns the empty list for an empty or whitespace-only keyword on every
\* roster, although every record matches the empty keyword.
C3_BlankKeywordEmpty ==
    /\ \A i \in 1..Len(employees) : matches(employees[i], <<>>)
    /\ (op = "search" /\ Blank(args.keyword)) => result = Returned(<<>>)

C3_Witness ==
    /\ op = "search"
    /\ args.keyword = <<32, 32>>
    /\ Len(employees) = MaxRoster
    /\ result.value = <<>>

\* C4 as stated: for a keyword that is not blank, search returns exactly the records
\* that match the keyword as the caller passed it, in roster order, each once.
C4_MatchesAsPassed ==
    (op = "search" /\ ~Blank(args.keyword)) =>
        /\ result.raised = ""
        /\ Ascending(result.value)
        /\ Range(result.value) =
               {i \in 1..Len(employees) : SaidMatches(employees[i], args.keyword)}

\* C4 amended: for a keyword that is not blank, search returns exactly the records
\* that match the keyword stripped of the whitespace around it, in roster order,
\* each once.
C4_MatchesStripped ==
    (op = "search" /\ ~Blank(args.keyword)) =>
        /\ result.raised = ""
        /\ Ascending(result.value)
        /\ Range(result.value) =
               {i \in 1..Len(employees) : SaidMatches(employees[i], Trimmed(args.keyword))}

\* a padded keyword that finds the first and the last of three records, by the part
\* field and in another letter case
C4_Witness ==
    /\ op = "search"
    /\ args.keyword = <<32, 97>>
    /\ Len(employees) = 3
    /\ result.value = <<1, 3>>
    /\ employees[1].part = <<98, 65>>

-----------------------------------------------------------------------------
(* Claims on is_active, active and summary_by_team *)

SaidActiveSet == {i \in 1..Len(employees) : SaidActive(employees[i])}

\* C5: is_active is true exactly when resignation_date is absent and employment_status
\* contains the marker; it is false whenever resignation_date is present; active()
\* returns exactly the is_active records in roster order.
C5_ActiveIff ==
    /\ \A i \in 1..Len(employees) :
           /\ is_active(employees[i]) <=> SaidActive(employees[i])
           /\ employees[i].resignation_date # <<>> => ~is_active(employees[i])
    /\ op = "active" =>
           /\ result.raised = ""
           /\ Ascending(result.value)
           /\ Range(result.value) = SaidActiveSet

\* active() skips a record whose status holds the marker but who has a resignation
\* date, and a record without the marker, and keeps the third
C5_Witness ==
    /\ op = "active"
    /\ Len(employees) = 3
    /\ employees[1].resignation_date # <<>>
    /\ employees[1].employment_status = StatusActiveNow
    /\ employees[2].resignation_date = <<>>
    /\ employees[2].employment_status = StatusOnLeave
    /\ result.value = <<3>>

\* the team a record is counted under
SaidTeamKey(emp) == IF Len(emp.team) = 0 THEN Unspecified ELSE emp.team

\* a before b in code point order
SaidLess(a, b) ==
    \E p \in 1..Len(b) :
        /\ \A q \in 1..(p - 1) : q <= Len(a) /\ a[q] = b[q]
        /\ (p > Len(a) \/ (p <= Len(a) /\ a[p] < b[p]))

RECURSIVE CountSum(_, _)
CountSum(items, n) == IF n = 0 THEN 0 ELSE items[n][2] + CountSum(items, n - 1)

\* C6: summary_by_team counts every active record once under its team name
\* ("(unspecified)" for an empty team), counts no inactive record, has no key of
\* count zero, its counts sum to len(active()), and its keys ascend.
C6_TeamPartition ==
    op = "summary_by_team" =>
        LET items == result.value
        IN  /\ result.raised = ""
            /\ \A k \in 1..Len(items) :
                   /\ items[k][2] > 0
                   /\ items[k][2] = Cardinality({i \in SaidActiveSet :
                                        SaidTeamKey(employees[i]) = items[k][1]})
            /\ \A i \in SaidActiveSet :
                   \E k \in 1..Len(items) : items[k][1] = SaidTeamKey(employees[i])
            /\ CountSum(items, Len(items)) = Len(active)
            /\ CountSum(items, Len(items)) = Cardinality(SaidActiveSet)
            /\ \A k, l \in 1..Len(items) : k < l => SaidLess(items[k][1], items[l][1])

\* three records: team "G", then no team, then an inactive one; the key for no team
\* comes out first
C6_Witness ==
    /\ op = "summary_by_team"
    /\ Len(employees) = 3
    /\ employees[1].team = <<71>>
    /\ employees[2].team = <<>>
    /\ ~SaidActive(employees[3])
    /\ result.value = <<<<Unspecified, 1>>, <<<<71>>, 1>>>>

-----------------------------------------------------------------------------
(* Claims on average_tenure_months *)

RECURSIVE TenureSum(_)
TenureSum(S) ==
    IF S = {} THEN 0
    ELSE LET i == CHOOSE i \in S : TRUE
         IN  employees[i].current_experience_months[1] + TenureSum(S \ {i})

\* the records averaged: those selected that have a tenure
SaidAveraged ==
    {i \in 1..Len(employees) :
        /\ args.active_only => SaidActive(employees[i])
        /\ employees[i].current_experience_months # <<>>}

\* C7: average_tenure_months returns None, raising nothing, exactly when no selected
\* record has a tenure; otherwise the sum of the present tenures over their count.
C7_AverageOrAbsent ==
    op = "average_tenure_months" =>
        /\ result.raised = ""
        /\ (SaidAveraged = {} <=> result.value = None)
        /\ SaidAveraged # {} =>
               /\ result.value[1].den = Cardinality(SaidAveraged)
               /\ result.value[1].den > 0
               /\ result.value[1].num = TenureSum(SaidAveraged)

\* only a resigned record has a tenure: the average over the active ones is absent
C7_Witness ==
    /\ op = "average_tenure_months"
    /\ args.active_only
    /\ result.value = None
    /\ \E i, j \in 1..Len(employees) :
           /\ ~SaidActive(employees[i])
           /\ employees[i].current_experience_months # <<>>
           /\ SaidActive(employees[j])

-----------------------------------------------------------------------------
(* Claims on the construction of records *)

\* date cells that are not blank and are no date written %Y-%m-%d
SaidUnparsable == {Date_Slashes, Date_Feb30, Date_Word}

\* date cells that are dates, with the ordinal of the date
SaidDateOf(cell) ==
    IF cell = Date_0001_01_02 THEN 2 ELSE 736208    \* date(1, 1, 2), date(2016, 9, 1)

SaidBadCell(row) ==
    \/ \E f \in DateFields : row[f] \in SaidUnparsable
    \/ row.current_experience_months = <<120>>

\* C8 as stated: a date cell that is not blank and does not parse gives a record with
\* that date absent, and no error (in a file whose other cells all parse).
C8_UnparsableDateAbsent ==
    (/\ op = "from_csv"
     /\ \A k \in 1..Len(rows) : rows[k].current_experience_months # <<120>>) =>
        /\ result.raised = ""
        /\ Len(employees) = Len(rows)
        /\ \A k \in 1..Len(rows) : \A f \in DateFields :
               rows[k][f] \in SaidUnparsable => employees[k][f] = None

\* C8 amended: a date cell that is not blank and does not parse makes the construction
\* raise ValueError and no roster is built; a date is absent in a record exactly when
\* its cell is empty or whitespace, and a written date is present with its value.
C8_UnparsableDateRaises ==
    op = "from_csv" =>
        /\ (\E k \in 1..Len(rows) : \E f \in DateFields : rows[k][f] \in SaidUnparsable)
               => (result.raised = "ValueError" /\ employees = <<>>)
        /\ result.raised = "ValueError" <=> \E k \in 1..Len(rows) : SaidBadCell(rows[k])
        /\ result.raised = "" =>
               /\ Len(employees) = Len(rows)
               /\ \A k \in 1..Len(rows) : \A f \in DateFields :
                      IF rows[k][f] \in DateBlank THEN employees[k][f] = None
                      ELSE employees[k][f] = Some(SaidDateOf(rows[k][f]))

\* a file whose second row has an unparsable probation_end, after a row that loads
C8_Witness ==
    /\ op = "from_csv"
    /\ Len(rows) = 2
    /\ ~SaidBadCell(rows[1])
    /\ rows[2].probation_end = Date_Slashes
    /\ result.raised = "ValueError"

-----------------------------------------------------------------------------
(* Claims on the displays *)

\* the nearest integer to num / den, the even one of two equally near
SaidRounded(num, den) ==
    CHOOSE r \in (0 - MaxCount - 1)..(10 * MaxDisplayMonths * MaxCount + 1) :
        LET gap == IF num >= r * den THEN num - r * den ELSE r * den - num
        IN  2 * gap < den \/ (2 * gap = den /\ r % 2 = 0)

\* "(approx. X months)", X the count to one decimal
SaidSuffix(num, den) ==
    LET tenths == SaidRounded(10 * (IF num < 0 THEN 0 - num ELSE num), den)
    IN  <<40>> \o StrApprox \o <<32>> \o (IF num < 0 THEN <<45>> ELSE <<>>)
        \o IntStr(tenths \div 10) \o <<46>> \o IntStr(tenths % 10) \o StrMonths \o <<41>>

\* the years and months parts of a whole month count, "0 months" when both are zero
SaidYearsMonths(whole) ==
    LET Y == whole \div 12
        M == whole % 12
    IN  IF Y = 0 /\ M = 0 THEN <<48>> \o StrMonths
        ELSE IF M = 0 THEN IntStr(Y) \o StrYear
        ELSE IF Y = 0 THEN IntStr(M) \o StrMonths
        ELSE IntStr(Y) \o StrYear \o <<32>> \o IntStr(M) \o StrMonths

Fractional(months) == months # <<>> /\ months[1].num % months[1].den # 0

\* C9 as stated: a fractional month count is displayed with years = floor(months / 12)
\* and months = floor(months mod 12), then the one-decimal suffix; the parts never
\* exceed the floored value. Stated here for the month counts that are not negative.
C9_FloorSplit ==
    (op = "describe_months" /\ Fractional(args.months) /\ args.months[1].num >= 0) =>
        result.value =
            SaidYearsMonths(args.months[1].num \div args.months[1].den)
            \o <<32>> \o SaidSuffix(args.months[1].num, args.months[1].den)

\* C9 amended: a fractional month count is first rounded to the nearest integer, a
\* half to the even one, and that integer is displayed as years = rounded div 12 and
\* months = rounded mod 12 ("0 months" if both are zero), then the one-decimal suffix;
\* 12.5 displays as "1 year (approx. 12.5 months)", and 11.5 as "1 year (approx. 11.5
\* months)", one month above its floor.
C9_RoundSplit ==
    (op = "describe_months" /\ Fractional(args.months)) =>
        /\ result.raised = ""
        /\ result.value =
               SaidYearsMonths(SaidRounded(args.months[1].num, args.months[1].den))
               \o <<32>> \o SaidSuffix(args.months[1].num, args.months[1].den)
        /\ args.months = Some([num |-> 25, den |-> 2]) =>
               result.value = <<49, 45380, 32, 40, 50557, 32, 49, 50, 46, 53, 44060, 50900, 41>>
        /\ args.months = Some([num |-> 23, den |-> 2]) =>
               result.value = <<49, 45380, 32, 40, 50557, 32, 49, 49, 46, 53, 44060, 50900, 41>>

\* 11.5 months displayed as one year
C9_Witness ==
    /\ op = "describe_months"
    /\ args.months = Some([num |-> 23, den |-> 2])
    /\ result.value = <<49, 45380, 32, 40, 50557, 32, 49, 49, 46, 53, 44060, 50900, 41>>

\* C10: tenure_display of a record with current_experience_months = m present is
\* "Y years M months", Y = m div 12 and M = m mod 12, without the part that is zero and
\* "0 months" for m = 0; with it absent, tenure_text if that is not empty, else "-".
C10_TenureDisplay ==
    op = "tenure_display" =>
        LET emp == employees[args.index]
            m == emp.current_experience_months
        IN  /\ result.raised = ""
            /\ m # <<>> => result.value = SaidYearsMonths(m[1])
            /\ (m = <<>> /\ emp.tenure_text # <<>>) => result.value = emp.tenure_text
            /\ (m = <<>> /\ emp.tenure_text = <<>>) => result.value = <<45>>
            /\ m = <<14>> => result.value = <<49, 45380, 32, 50, 44060, 50900>>
            /\ m = <<12>> => result.value = <<49, 45380>>
            /\ m = <<5>> => result.value = <<53, 44060, 50900>>
            /\ m = <<0>> => result.value = <<48, 44060, 50900>>
            /\ m = <<23>> => result.value = <<49, 45380, 32, 49, 49, 44060, 50900>>

\* a tenure of 0 months displayed, not the tenure text beside it
C10_Witness ==
    /\ op = "tenure_display"
    /\ employees[args.index].current_experience_months = <<0>>
    /\ employees[args.index].tenure_text # <<>>
    /\ result.value = <<48, 44060, 50900>>

====
